---- MODULE Spec2Model ----
(***************************************************************************)
(* Verification model of the Obsidian AI Voice Memo plugin core:           *)
(*   - TranscriptionService: the job queue, processQueue and               *)
(*     createTranscriptionNote (src/services/transcription-service.ts)     *)
(*   - SummarizationService: chunkText and summarize                       *)
(*     (src/services/summarization-service.ts)                             *)
(*   - TextAnalysisService: analyze and formatTasks                        *)
(*     (src/services/text-analysis-service.ts)                             *)
(* Positions are 0-based as in the TypeScript source; a text t is a        *)
(* sequence of one-character strings, so t[i + 1] is the character at      *)
(* JavaScript index i.                                                     *)
(***************************************************************************)
EXTENDS Integers, Sequences, FiniteSets, TLC

VARIABLES
    \* ---- TranscriptionService -------------------------------------------
    queue,          \* this.queue: sequence of job ids (references to job objects)
    isProcessing,   \* this.isProcessing
    status,         \* job.status of every job object ever created ("none": not created)
    result,         \* job.result ("undefined" until the transcription returned)
    jobError,       \* job.error ("undefined" until a failure is recorded)
    pc,             \* position of the processQueue() invocation that took the job
    summary,        \* local `summary` of createTranscriptionNote
    note,           \* sections of the content handed to vault.create
    settings,       \* this.plugin.settings (the fields the orchestrator reads)
    submitted,      \* number of transcribe() calls made so far
    lastCall,       \* what the latest transcribe() call gave its caller
    unhandled,      \* rejection of the latest un-awaited processQueue() promise
    startOrder,     \* history: jobs in the order they entered 'processing'
    inFlight,       \* history: number of processQueue() invocations awaiting
    summarizeThrew, \* history: summarize() threw for this job
    \* ---- SummarizationService -------------------------------------------
    text,           \* argument of summarize()/chunkText()
    startIndex,     \* chunkText: let startIndex
    ranges,         \* history: the [start, end) ranges sliced by chunkText
    chunks,         \* chunkText: const chunks
    chunkState,     \* state of each summarizeChunk promise
    settled,        \* history: chunk indices in the order their promises settled
    sumPc,          \* position inside summarize()
    sumResult,      \* <<r>> once summarize() returned r, <<>> before
    \* ---- TextAnalysisService --------------------------------------------
    lastIndex,      \* lastIndex of each regex of this.taskPatterns
    calls,          \* history: the analyze() calls made, with their results
    \* ---- WhisperLocalService -------------------------------------------
    worker,         \* this.worker: the id of a Worker, 0 for null
    isInitialized,  \* this.isInitialized
    created,        \* number of Worker objects constructed so far
    alive,          \* the Workers not terminated
    initializing,   \* the Workers whose handleInitMessage listener waits
    cleanups        \* the cleanup() invocations that reached their promise

qvars == <<queue, isProcessing, status, result, jobError, pc, summary, note,
           settings, submitted, lastCall, unhandled, startOrder, inFlight,
           summarizeThrew>>
svars == <<text, startIndex, ranges, chunks, chunkState, settled, sumPc,
           sumResult>>
avars == <<lastIndex, calls>>
wvars == <<worker, isInitialized, created, alive, initializing, cleanups>>
vars == <<queue, isProcessing, status, result, jobError, pc, summary, note,
          settings, submitted, lastCall, unhandled, startOrder, inFlight,
          summarizeThrew, text, startIndex, ranges, chunks, chunkState,
          settled, sumPc, sumResult, lastIndex, calls, worker, isInitialized,
          created, alive, initializing, cleanups>>

-----------------------------------------------------------------------------
(* Bounds *)

\* number of transcribe() calls in one behaviour
MaxJobs == 12

Jobs == 1..MaxJobs

-----------------------------------------------------------------------------
(* Program constants *)

\* processQueue: if (this.queue.length >= 10)
QUEUE_THRESHOLD == 10

\* outcomes of the transcription engine: the transcribed text
Transcripts == {"", "Hello world.", "todo: buy milk.", "Note the deadline.",
                "todo: buy milk. Note the deadline."}

\* error codes processTranscription can throw with
TranscriptionFailures == {"API_ERROR", "LOCAL_MODEL_ERROR"}

\* AiVoiceMemoSettings: summarization.enabled, analysis.extractTasks,
\* analysis.extractKeyPoints, analysis.includeTaskPriority,
\* analysis.includeTaskDates and summarization.includeSections
AllSettings == [summarizationEnabled : BOOLEAN,
                extractTasks : BOOLEAN,
                extractKeyPoints : BOOLEAN,
                includeTaskPriority : BOOLEAN,
                includeTaskDates : BOOLEAN,
                includeTopics : BOOLEAN,
                includeDecisions : BOOLEAN,
                includeQuestions : BOOLEAN]

\* DEFAULT_SETTINGS
DefaultSettings == [summarizationEnabled |-> TRUE,
                    extractTasks |-> TRUE,
                    extractKeyPoints |-> TRUE,
                    includeTaskPriority |-> TRUE,
                    includeTaskDates |-> TRUE,
                    includeTopics |-> TRUE,
                    includeDecisions |-> TRUE,
                    includeQuestions |-> TRUE]

\* the values the settings tab saves while jobs are queued: the three
\* switches processQueue and createTranscriptionNote branch on
SettingsValues ==
    {s \in AllSettings : /\ s.includeTaskPriority /\ s.includeTaskDates
                         /\ s.includeTopics /\ s.includeDecisions
                         /\ s.includeQuestions}

SeqToSet(s) == {s[i] : i \in 1..Len(s)}

Max(a, b) == IF a >= b THEN a ELSE b
Min(a, b) == IF a <= b THEN a ELSE b

-----------------------------------------------------------------------------
(* Strings and the regular expressions of the services.  A transcript is a  *)
(* string; positions in this section are 1-based, position i holding the    *)
(* character of JavaScript index i - 1.                                     *)

UpperChars == "ABCDEFGHIJKLMNOPQRSTUVWXYZ"
LowerChars == "abcdefghijklmnopqrstuvwxyz"
DigitChars == "0123456789"

\* the character of s at position i
Ch(s, i) == SubSeq(s, i, i)

CharSet(s) == {Ch(s, i) : i \in 1..Len(s)}

UpperSet == CharSet(UpperChars)

LowerMap == [c \in UpperSet |->
                Ch(LowerChars, CHOOSE k \in 1..Len(UpperChars) :
                                   Ch(UpperChars, k) = c)]

\* s.toLowerCase(), and the `i` flag of the regular expressions
RECURSIVE ToLowerCase(_)
ToLowerCase(s) ==
    IF Len(s) = 0 THEN ""
    ELSE IF Len(s) = 1 THEN (IF s \in UpperSet THEN LowerMap[s] ELSE s)
    ELSE ToLowerCase(SubSeq(s, 1, Len(s) \div 2))
         \o ToLowerCase(SubSeq(s, Len(s) \div 2 + 1, Len(s)))

\* \s
SpaceChars == {" ", "\n"}

\* \w
WordChars == UpperSet \cup CharSet(LowerChars) \cup CharSet(DigitChars) \cup {"_"}

\* \d
Digits == CharSet(DigitChars)

\* [.!?\n]
Terminators == {".", "!", "?", "\n"}

\* s.trim()
TrimStr(s) ==
    LET ink == {i \in 1..Len(s) : Ch(s, i) \notin SpaceChars}
    IN IF ink = {} THEN ""
       ELSE SubSeq(s, CHOOSE i \in ink : \A k \in ink : i <= k,
                      CHOOSE i \in ink : \A k \in ink : i >= k)

\* s.includes(w)
Includes(s, w) ==
    \E i \in 1..(Len(s) - Len(w) + 1) : SubSeq(s, i, i + Len(w) - 1) = w

\* length of the longest run of characters of set cs that starts at position i
Run(s, i, cs) ==
    LET stops == {k \in i..Len(s) : Ch(s, k) \notin cs}
    IN IF stops = {} THEN Len(s) - i + 1
       ELSE (CHOOSE k \in stops : \A m \in stops : k <= m) - i

\* length of the longest run of characters outside cs that starts at i
RunNot(s, i, cs) ==
    LET stops == {k \in i..Len(s) : Ch(s, k) \in cs}
    IN IF stops = {} THEN Len(s) - i + 1
       ELSE (CHOOSE k \in stops : \A m \in stops : k <= m) - i

\* <<hi, hi - 1, ..., lo>>: the positions a greedy quantifier tries in turn
Down(hi, lo) == [n \in 1..(hi - lo + 1) |-> hi - n + 1]

\* elements of a regular expression
Alt(ws) == [k |-> "alt", ws |-> ws]          \* (?:w1|w2|...), lower case
Opt(w) == [k |-> "opt", w |-> w]             \* w?
Ws0 == [k |-> "ws0"]                         \* \s*
Ws1 == [k |-> "ws1"]                         \* \s+
Word == [k |-> "word"]                       \* \w+
OneOf(cs) == [k |-> "set", cs |-> cs]        \* [...] one character
Some(cs) == [k |-> "some", cs |-> cs]        \* [...]+
SomeNot(cs) == [k |-> "somenot", cs |-> cs]  \* [^...]+
Upto(cs, lo, hi) == [k |-> "upto", cs |-> cs, lo |-> lo, hi |-> hi] \* [...]{lo,hi}
Clause == [k |-> "clause"]                   \* [^.!?\n]+[.!?\n]
Boundary == [k |-> "boundary"]               \* \b
Open == [k |-> "open"]                       \* ( of the capture group
Close == [k |-> "close"]                     \* ) of the capture group
Group(els, lo, hi) == [k |-> "group", els |-> els, lo |-> lo, hi |-> hi] \* (?:...){lo,hi}

\* the next positions alternative n, n + 1, ... of ws lead to from position i
RECURSIVE AltChoices(_, _, _, _)
AltChoices(L, ws, n, i) ==
    IF n > Len(ws) THEN <<>>
    ELSE (IF i + Len(ws[n]) - 1 <= Len(L)
             /\ SubSeq(L, i, i + Len(ws[n]) - 1) = ws[n]
          THEN <<i + Len(ws[n])>> ELSE <<>>)
         \o AltChoices(L, ws, n + 1, i)

\* \b at position i: exactly one of the characters before and at i is a \w
AtBoundary(s, i) ==
    (i > 1 /\ Ch(s, i - 1) \in WordChars)
        # (i <= Len(s) /\ Ch(s, i) \in WordChars)

\* Match(s, L, els, k, i): the first way, in backtracking order, in which
\* elements k.. of els match s from position i on (L is s in lower case):
\* <<[end, capS, capE]>> with end the position after the match and
\* capS..capE the captured positions, or <<>> when there is none.
RECURSIVE Match(_, _, _, _, _)
RECURSIVE TryAll(_, _, _, _, _)
RECURSIVE Choices(_, _, _, _)
RECURSIVE GroupEnds(_, _, _, _, _)

\* the positions after 0..n greedy repetitions of els from i, longest first
GroupEnds(s, L, els, n, i) ==
    IF n = 0 THEN <<i>>
    ELSE LET r == Match(s, L, els, 1, i)
         IN IF Len(r) = 0 \/ r[1].end = i THEN <<i>>
            ELSE GroupEnds(s, L, els, n - 1, r[1].end) \o <<i>>

Choices(s, L, el, i) ==
    CASE el.k = "alt" -> AltChoices(L, el.ws, 1, i)
      [] el.k = "opt" -> AltChoices(L, <<el.w>>, 1, i) \o <<i>>
      [] el.k = "ws0" -> Down(i + Run(s, i, SpaceChars), i)
      [] el.k = "ws1" -> Down(i + Run(s, i, SpaceChars), i + 1)
      [] el.k = "word" -> Down(i + Run(s, i, WordChars), i + 1)
      [] el.k = "set" -> IF i <= Len(s) /\ Ch(s, i) \in el.cs
                         THEN <<i + 1>> ELSE <<>>
      [] el.k = "some" -> Down(i + Run(s, i, el.cs), i + 1)
      [] el.k = "somenot" -> Down(i + RunNot(s, i, el.cs), i + 1)
      [] el.k = "upto" -> Down(i + Min(Run(s, i, el.cs), el.hi), i + el.lo)
      [] el.k = "clause" ->
            LET n == RunNot(s, i, Terminators)
            IN IF n >= 1 /\ i + n <= Len(s) THEN <<i + n + 1>> ELSE <<>>
      [] el.k = "boundary" -> IF AtBoundary(s, i) THEN <<i>> ELSE <<>>
      [] el.k = "group" ->
            LET ends == GroupEnds(s, L, el.els, el.hi, i)
            IN SubSeq(ends, 1, Len(ends) - el.lo)

TryAll(s, L, els, k, cs) ==
    IF Len(cs) = 0 THEN <<>>
    ELSE LET r == Match(s, L, els, k + 1, cs[1])
         IN IF Len(r) > 0 THEN r ELSE TryAll(s, L, els, k, Tail(cs))

\* a match r of the rest of a pattern, with the capture group opening
\* (closing) at position i
Opened(r, i) == IF Len(r) = 0 THEN r ELSE <<[r[1] EXCEPT !.capS = i]>>
Closed(r, i) == IF Len(r) = 0 THEN r ELSE <<[r[1] EXCEPT !.capE = i - 1]>>

Match(s, L, els, k, i) ==
    IF k > Len(els) THEN <<[end |-> i, capS |-> 1, capE |-> 0]>>
    ELSE IF els[k].k = "open" THEN Opened(Match(s, L, els, k + 1, i), i)
    ELSE IF els[k].k = "close" THEN Closed(Match(s, L, els, k + 1, i), i)
    ELSE TryAll(s, L, els, k, Choices(s, L, els[k], i))

\* the leftmost of the matches found, as <<[start, end, capS, capE]>>
Leftmost(found) ==
    IF found = {} THEN <<>>
    ELSE LET f == CHOOSE f \in found : \A g \in found : f.start <= g.start
         IN <<[start |-> f.start, end |-> f.m[1].end,
               capS |-> f.m[1].capS, capE |-> f.m[1].capE]>>

\* the first match of els in s at or after position from:
\* <<[start, end, capS, capE]>>, or <<>>  (RegExp exec with lastIndex from - 1)
Exec(s, L, els, from) ==
    Leftmost({r \in {[start |-> i, m |-> Match(s, L, els, 1, i)] :
                        i \in from..(Len(s) + 1)} : Len(r.m) > 0})

\* s.matchAll(regex) for a global regex whose lastIndex is from - 1: the
\* matches in order, each search starting where the previous match ended
\* (one position further after an empty match)
RECURSIVE MatchAll(_, _, _, _)
RECURSIVE MatchAllAfter(_, _, _, _)
MatchAllAfter(s, L, els, m) ==
    IF Len(m) = 0 THEN <<>>
    ELSE m \o MatchAll(s, L, els,
                       IF m[1].end > m[1].start THEN m[1].end
                       ELSE m[1].end + 1)

MatchAll(s, L, els, from) == MatchAllAfter(s, L, els, Exec(s, L, els, from))

\* the text of match m, and of its capture group
Matched(s, m) == SubSeq(s, m.start, m.end - 1)
Captured(s, m) == SubSeq(s, m.capS, m.capE)
-----------------------------------------------------------------------------
(* TextAnalysisService *)

\* the capture group ([^.!?\n]+[.!?\n]) that ends every task pattern
TaskClause == <<Open, Clause, Close>>

WeekDays == <<"monday", "tuesday", "wednesday", "thursday", "friday",
              "saturday", "sunday", "tomorrow", "next week">>

\* variant: the obligation phrases are tried before the priority indicators
TaskPatterns_ObligationFirst ==
    <<<<Alt(<<"need to", "have to", "must">>), Ws1>> \o TaskClause,
      <<Alt(<<"high priority", "urgent", "asap">>), Opt(":"), Ws0>>
          \o TaskClause,
      <<Alt(<<"todo", "task", "action item">>), Opt(":"), Ws0>> \o TaskClause,
      <<Alt(<<"remember to", "don't forget to">>), Ws1>> \o TaskClause,
      <<Alt(<<"by", "before", "due">>), Ws1, Alt(WeekDays), Ws0,
        OneOf({",", ":"}), Ws0>> \o TaskClause,
      <<Alt(<<"assigned to", "delegate to">>), Ws1, Word, Ws0,
        OneOf({",", ":"}), Ws0>> \o TaskClause>>

\* initializePatterns: this.taskPatterns, in order
TaskPatterns ==
    <<<<Alt(<<"high priority", "urgent", "asap">>), Opt(":"), Ws0>>
          \o TaskClause,
      <<Alt(<<"todo", "task", "action item">>), Opt(":"), Ws0>> \o TaskClause,
      <<Alt(<<"need to", "have to", "must">>), Ws1>> \o TaskClause,
      <<Alt(<<"remember to", "don't forget to">>), Ws1>> \o TaskClause,
      <<Alt(<<"by", "before", "due">>), Ws1, Alt(WeekDays), Ws0,
        OneOf({",", ":"}), Ws0>> \o TaskClause,
      <<Alt(<<"assigned to", "delegate to">>), Ws1, Word, Ws0,
        OneOf({",", ":"}), Ws0>> \o TaskClause>>

PatternIds == 1..Len(TaskPatterns)

\* lastIndex of every regex of this.taskPatterns after initializePatterns
ZeroIndex == [p \in PatternIds |-> 0]

\* detectPriority
DetectPriority(m) ==
    LET has(ws) == \E w \in ws : Includes(ToLowerCase(m), w)
    IN IF has({"urgent", "asap", "high priority", "critical", "immediately"})
       THEN "high"
       ELSE IF has({"soon", "important", "medium priority"}) THEN "medium"
       ELSE IF has({"eventually", "when possible", "low priority"}) THEN "low"
       ELSE "undefined"

DateCue == <<Alt(<<"by", "before", "due", "on">>), Ws1, Open>>

Months == <<"january", "jan", "february", "feb", "march", "mar", "april",
            "apr", "may", "june", "jun", "july", "jul", "august", "aug",
            "september", "sep", "october", "oct", "november", "nov",
            "december", "dec">>

\* the three alternatives of the date regex of extractDate, in order
DatePatterns ==
    <<DateCue \o <<Alt(WeekDays), Close>>,
      DateCue \o <<Upto(Digits, 1, 2), OneOf({"/"}), Upto(Digits, 1, 2),
                   Group(<<OneOf({"/"}), Upto(Digits, 2, 4)>>, 0, 1), Close>>,
      DateCue \o <<Alt(Months), Ws1, Upto(Digits, 1, 2),
                   Group(<<Alt(<<"st", "nd", "rd", "th">>)>>, 0, 1),
                   Group(<<Opt(","), Ws1, Upto(Digits, 4, 4)>>, 0, 1), Close>>>>

\* the capture group of the leftmost of the matches hits of m, the earlier
\* alternative first; "undefined" without a match
Earliest(m, hits) ==
    IF hits = {} THEN "undefined"
    ELSE Captured(m, (CHOOSE h \in hits : \A g \in hits :
                         \/ h.hit[1].start < g.hit[1].start
                         \/ (h.hit[1].start = g.hit[1].start
                             /\ h.alt <= g.alt)).hit[1])

\* extractDate: text.match(dateRegex)[1]
ExtractDate(m) ==
    Earliest(m, {h \in {[alt |-> a,
                         hit |-> Exec(m, ToLowerCase(m), DatePatterns[a], 1)] :
                           a \in 1..Len(DatePatterns)} : Len(h.hit) > 0})

\* the texts of the matches ms of s
MatchedTexts(s, ms) == [n \in 1..Len(ms) |-> Matched(s, ms[n])]

\* extractTags: every /#[\w-]+/g match, then every /@[\w-]+/g match
ExtractTags(t) ==
    MatchedTexts(t, MatchAll(t, t, <<OneOf({"#"}), Some(WordChars \cup {"-"})>>, 1))
    \o MatchedTexts(t, MatchAll(t, t, <<OneOf({"@"}), Some(WordChars \cup {"-"})>>, 1))

\* const contextWindow = 100
CONTEXT_WINDOW == 100

\* extractContext(fullText, matchIndex), matchIndex a JavaScript index
ExtractContext(fullText, matchIndex) ==
    TrimStr(SubSeq(fullText, Max(0, matchIndex - CONTEXT_WINDOW) + 1,
                   Min(Len(fullText), matchIndex + CONTEXT_WINDOW)))

\* variant: the priority is looked for in the task text, not in the whole match
TaskOf_PriorityOfText(t, m) ==
    [text |-> TrimStr(Captured(t, m)),
     priority |-> DetectPriority(TrimStr(Captured(t, m))),
     dueDate |-> ExtractDate(Matched(t, m)),
     tags |-> ExtractTags(TrimStr(Captured(t, m))),
     context |-> ExtractContext(t, m.start - 1)]

\* the task object extractTasks builds for match m of text t
TaskOf(t, m) ==
    [text |-> TrimStr(Captured(t, m)),
     priority |-> DetectPriority(Matched(t, m)),
     dueDate |-> ExtractDate(Matched(t, m)),
     tags |-> ExtractTags(TrimStr(Captured(t, m))),
     context |-> ExtractContext(t, m.start - 1)]

\* text.matchAll(pattern): the iteration runs on a clone of the pattern that
\* starts at the pattern's lastIndex
PatternMatches(t, p, li) ==
    MatchAll(t, ToLowerCase(t), TaskPatterns[p], li + 1)

\* the task objects of the matches ms
TasksOf(t, ms) == [n \in 1..Len(ms) |-> TaskOf(t, ms[n])]

\* the candidate tasks in discovery order: pattern by pattern, match by match
RECURSIVE Candidates(_, _, _)
Candidates(t, li, p) ==
    IF p > Len(TaskPatterns) THEN <<>>
    ELSE TasksOf(t, PatternMatches(t, p, li[p])) \o Candidates(t, li, p + 1)

\* variant: processedLines holds the texts as found, not in lower case
Processed_CaseSensitive(tasks, taskText) ==
    \E n \in 1..Len(tasks) : tasks[n].text = taskText

\* processedLines.has(taskText.toLowerCase())
Processed(tasks, taskText) ==
    \E n \in 1..Len(tasks) :
        ToLowerCase(tasks[n].text) = ToLowerCase(taskText)

\* the body of the inner loop of extractTasks over candidates cs
RECURSIVE KeepFirst(_, _)
KeepFirst(tasks, cs) ==
    IF Len(cs) = 0 THEN tasks
    ELSE KeepFirst(IF cs[1].text # "" /\ ~Processed(tasks, cs[1].text)
                   THEN Append(tasks, cs[1]) ELSE tasks,
                   Tail(cs))

\* extractTasks(text) with the pattern table's lastIndex values li
ExtractTasks(t, li) == KeepFirst(<<>>, Candidates(t, li, 1))

\* the elements of a set of numbers in ascending order
RECURSIVE Ascending(_)
Ascending(S) ==
    IF S = {} THEN <<>>
    ELSE LET lo == CHOOSE i \in S : \A k \in S : i <= k
         IN <<lo>> \o Ascending(S \ {lo})

\* text.match(/[^.!?\n]+[.!?\n]+/g) || []: a match starts at every
\* non-terminator that follows a terminator (or begins the text) and takes the
\* run of non-terminators and the run of terminators after it; a run that
\* reaches the end of the text without a terminator is no match
Sentences(t) ==
    LET begins == {i \in 1..Len(t) :
                      /\ Ch(t, i) \notin Terminators
                      /\ (i = 1 \/ Ch(t, i - 1) \in Terminators)}
        closed == {i \in begins : i + RunNot(t, i, Terminators) <= Len(t)}
        from == Ascending(closed)
    IN [n \in 1..Len(from) |->
          LET e == from[n] + RunNot(t, from[n], Terminators)
          IN SubSeq(t, from[n], e + Run(t, e, Terminators) - 1)]

\* the key phrases of isKeyPoint
KeyPhrases ==
    <<<<Boundary, Alt(<<"key", "main", "important", "significant", "notable">>),
        Ws1, Alt(<<"point">>), Boundary>>,
      <<Boundary, Alt(<<"primarily", "mainly", "essentially", "fundamentally">>),
        Boundary>>,
      <<Boundary, Alt(<<"in">>), Ws1, Alt(<<"summary">>), Boundary>>,
      <<Boundary, Alt(<<"to">>), Ws1, Alt(<<"summarize">>), Boundary>>,
      <<Boundary, Alt(<<"in">>), Ws1, Alt(<<"conclusion">>), Boundary>>,
      <<Boundary, Alt(<<"highlight", "emphasize", "stress", "note">>), Boundary>>>>

\* regex.test(s) for a regex without the g flag
Test(s, els) == Len(Exec(s, ToLowerCase(s), els, 1)) > 0

\* isKeyPoint(sentence)
IsKeyPoint(sentence) ==
    \E n \in 1..Len(KeyPhrases) : Test(sentence, KeyPhrases[n])

\* ss.map(s => s.trim())
TrimAll(ss) == [n \in 1..Len(ss) |-> TrimStr(ss[n])]

\* extractKeyPoints
ExtractKeyPoints(t) == TrimAll(SelectSeq(Sentences(t), IsKeyPoint))

\* analyze(text) with the pattern table's lastIndex values li
AnalyzeWith(t, li) ==
    [tasks |-> ExtractTasks(t, li), keyPoints |-> ExtractKeyPoints(t)]

\* tags.join(' ')
RECURSIVE JoinStr(_, _)
JoinStr(ss, sep) ==
    IF Len(ss) = 0 THEN ""
    ELSE IF Len(ss) = 1 THEN ss[1]
    ELSE ss[1] \o sep \o JoinStr(Tail(ss), sep)

\* formatTasks: one checkbox line per task
FormatTask(task) ==
    JoinStr(<<"- [ ] " \o task.text>>
            \o (IF task.priority # "undefined"
                THEN <<"[Priority: " \o task.priority \o "]">> ELSE <<>>)
            \o (IF task.dueDate # "undefined"
                THEN <<"[Due: " \o task.dueDate \o "]">> ELSE <<>>)
            \o (IF Len(task.tags) > 0
                THEN <<JoinStr(task.tags, " ")>> ELSE <<>>),
            " ")

FormatTasks(tasks) == [n \in 1..Len(tasks) |-> FormatTask(tasks[n])]
-----------------------------------------------------------------------------
(* SummarizationService: topics, decisions, questions *)

\* a string as the sequence of its characters, and back
Chars(s) == [i \in 1..Len(s) |-> Ch(s, i)]

RECURSIVE Str(_)
Str(t) ==
    IF Len(t) = 0 THEN ""
    ELSE IF Len(t) = 1 THEN t[1]
    ELSE Str(SubSeq(t, 1, Len(t) \div 2))
         \o Str(SubSeq(t, Len(t) \div 2 + 1, Len(t)))

\* new Set(ss) -> Array.from: first occurrences, in insertion order
RECURSIVE Distinct(_)
Distinct(ss) ==
    IF Len(ss) = 0 THEN <<>>
    ELSE LET init == Distinct(SubSeq(ss, 1, Len(ss) - 1))
         IN IF \E n \in 1..Len(init) : init[n] = ss[Len(ss)] THEN init
            ELSE Append(init, ss[Len(ss)])

\* match[1].trim() of the matches ms (match[1] holds at least one character
\* whenever a pattern matches)
TrimmedCaptures(t, ms) == [n \in 1..Len(ms) |-> TrimStr(Captured(t, ms[n]))]

\* the trimmed capture groups of all matches of the patterns ps, in order
RECURSIVE Captures(_, _, _)
Captures(t, ps, p) ==
    IF p > Len(ps) THEN <<>>
    ELSE TrimmedCaptures(t, MatchAll(t, ToLowerCase(t), ps[p], 1))
         \o Captures(t, ps, p + 1)

\* (\w+(?:\s+\w+){0,3})
TopicWords == <<Open, Word, Group(<<Ws1, Word>>, 0, 3), Close>>

TopicPatterns ==
    <<<<Alt(<<"discussed", "discusse">>), Ws1>> \o TopicWords,
      <<Alt(<<"regarding">>), Ws1>> \o TopicWords,
      <<Alt(<<"about">>), Ws1>> \o TopicWords,
      <<Alt(<<"topic:">>), Ws0>> \o TopicWords>>

\* extractTopics
ExtractTopics(t) == Distinct(Captures(t, TopicPatterns, 1))

DecisionPatterns ==
    <<<<Alt(<<"decided">>), Ws1, Alt(<<"to">>), Ws1>> \o TaskClause,
      <<Alt(<<"decision:">>), Ws0>> \o TaskClause,
      <<Alt(<<"agreed">>), Ws1, Alt(<<"to">>), Ws1>> \o TaskClause,
      <<Alt(<<"conclusion:">>), Ws0>> \o TaskClause>>

\* extractDecisions
ExtractDecisions(t) == Distinct(Captures(t, DecisionPatterns, 1))

\* q.endsWith('?') || /^(?:what|who|where|when|why|how)\b/i.test(q)
AsksSomething(q) ==
    \/ (Len(q) > 0 /\ Ch(q, Len(q)) = "?")
    \/ Len(Match(q, ToLowerCase(q),
                 <<Alt(<<"what", "who", "where", "when", "why", "how">>),
                   Boundary>>, 1, 1)) > 0

\* the test of extractQuestions on sentence.trim()
IsQuestion(sentence) == AsksSomething(TrimStr(sentence))

\* extractQuestions
ExtractQuestions(t) == Distinct(TrimAll(SelectSeq(Sentences(t), IsQuestion)))

\* `- ${x}` for every x of xs
Bullets(xs) == [n \in 1..Len(xs) |-> "- " \o xs[n]]

\* one optional subsection of formatSummary
SubSection(header, xs) ==
    IF Len(xs) > 0 THEN <<"", header>> \o Bullets(xs) \o <<"">> ELSE <<>>

\* variant: the subsection headers are written even for an empty list
FormatSummary_AllHeaders(r) ==
    <<"## Summary", "", r.summary, "">>
    \o <<"", "### Topics Discussed">> \o Bullets(r.topics) \o <<"">>
    \o <<"", "### Decisions Made">> \o Bullets(r.decisions) \o <<"">>
    \o <<"", "### Questions Raised">> \o Bullets(r.questions) \o <<"">>

\* formatSummary(result), as lines
FormatSummary(r) ==
    <<"## Summary", "", r.summary, "">>
    \o SubSection("### Topics Discussed", r.topics)
    \o SubSection("### Decisions Made", r.decisions)
    \o SubSection("### Questions Raised", r.questions)
-----------------------------------------------------------------------------
(* SummarizationService.chunkText *)

\* private readonly CHUNK_SIZE = 1000
CHUNK_SIZE == 1000

\* private readonly CHUNK_OVERLAP = 200
CHUNK_OVERLAP == 200

\* the literal 50 of `endIndex - 50` and `endIndex + 50`
SEARCH_WINDOW == 50

\* text.indexOf(ch, from): first index >= from holding ch, -1 when none
IndexOf(t, ch, from) ==
    LET hits == {i \in Max(from, 0)..(Len(t) - 1) : t[i + 1] = ch}
    IN IF hits = {} THEN -1
       ELSE CHOOSE i \in hits : \A k \in hits : i <= k

\* text.slice(a, b) for 0 <= a, b <= text.length
Slice(t, a, b) == SubSeq(t, a + 1, b)

WhiteSpace == {" ", "\n"}

\* s.trim()
Trim(s) ==
    LET ink == {i \in 1..Len(s) : s[i] \notin WhiteSpace}
    IN IF ink = {} THEN <<>>
       ELSE SubSeq(s, CHOOSE i \in ink : \A k \in ink : i <= k,
                      CHOOSE i \in ink : \A k \in ink : i >= k)

\* const endIndex = Math.min(startIndex + this.CHUNK_SIZE, text.length)
EndIndex(t, start) == Min(start + CHUNK_SIZE, Len(t))

\* variant: the search for a period begins at the start of the chunk
SearchStart_FromChunkStart(start, end) == start

\* const searchStart = Math.max(startIndex, endIndex - 50)
SearchStart(start, end) == Max(start, end - SEARCH_WINDOW)

\* variant: any later period is taken, however far past the nominal end
BreakPoint_NoLimit(t, start) ==
    LET end == EndIndex(t, start)
        nextPeriod == IndexOf(t, ".", SearchStart(start, end))
    IN IF end < Len(t) /\ nextPeriod # -1 THEN nextPeriod + 1 ELSE end

\* let breakPoint = endIndex; if (endIndex < text.length) { ... nextPeriod + 1 }
BreakPoint(t, start) ==
    LET end == EndIndex(t, start)
        nextPeriod == IndexOf(t, ".", SearchStart(start, end))
    IN IF end < Len(t) /\ nextPeriod # -1 /\ nextPeriod < end + SEARCH_WINDOW
       THEN nextPeriod + 1
       ELSE end

\* variant: the overlap is added instead of subtracted
NextStart_OverlapAdded(bp, n) ==
    IF Min(bp, n) < n THEN Max(Min(bp, n) + CHUNK_OVERLAP, 0) ELSE Min(bp, n)

\* startIndex = Math.min(breakPoint, text.length);
\* if (startIndex < text.length) startIndex = Math.max(startIndex - OVERLAP, 0)
NextStart(bp, n) ==
    IF Min(bp, n) < n THEN Max(Min(bp, n) - CHUNK_OVERLAP, 0) ELSE Min(bp, n)

-----------------------------------------------------------------------------
(* SummarizationService.summarize *)

\* variant: the first sentence without the closing period
SummarizeChunk_NoPeriod(c) ==
    LET dot == IndexOf(c, ".", 0)
    IN IF dot = -1 THEN c ELSE Slice(c, 0, dot)

\* summarizeChunk: chunk.split('.')[0] + '.'
SummarizeChunk(c) ==
    LET dot == IndexOf(c, ".", 0)
    IN (IF dot = -1 THEN c ELSE Slice(c, 0, dot)) \o <<".">>

\* variant: an empty list of summaries is marked by a dash
RECURSIVE Join_MarkedEmpty(_)
Join_MarkedEmpty(ss) ==
    IF Len(ss) = 0 THEN <<"-">>
    ELSE IF Len(ss) = 1 THEN ss[1]
    ELSE ss[1] \o <<"\n", "\n">> \o Join_MarkedEmpty(Tail(ss))

\* combineChunkSummaries: summaries.join('\n\n')
RECURSIVE Join(_)
Join(ss) ==
    IF Len(ss) = 0 THEN <<>>
    ELSE IF Len(ss) = 1 THEN ss[1]
    ELSE ss[1] \o <<"\n", "\n">> \o Join(Tail(ss))

\* chunkSummaries: the values of the fulfilled summarizeChunk promises, in
\* chunk order
RECURSIVE ChunkSummaries(_, _)
ChunkSummaries(cks, cs) ==
    IF Len(cks) = 0 THEN <<>>
    ELSE (IF cs[1] = "fulfilled" THEN <<SummarizeChunk(cks[1])>> ELSE <<>>)
         \o ChunkSummaries(Tail(cks), Tail(cs))

\* variant: the values are collected as the promises settle
Gathered_AsSettled(values, order) ==
    [k \in 1..Len(values) |-> values[order[k]]]

\* await Promise.all(promises): the array of the fulfilment values in the
\* order of the promises passed, whatever the order in which they settled
Gathered(values, order) == values

\* variant: waits for every promise to settle and goes on with those fulfilled
AllFulfilled_Settled(cs) == \A i \in 1..Len(cs) : cs[i] # "pending"

\* Promise.all resolves when every summarizeChunk promise is fulfilled
AllFulfilled(cs) == \A i \in 1..Len(cs) : cs[i] = "fulfilled"

\* Promise.all rejects when one summarizeChunk promise is rejected
SomeRejected(cs) == \E i \in 1..Len(cs) : cs[i] = "rejected"
-----------------------------------------------------------------------------
(* summarize(text) as a function of its arguments *)

\* chunkText from cursor position start on: the chunks pushed
RECURSIVE ChunkTextFrom(_, _)
ChunkTextFrom(t, start) ==
    IF start >= Len(t) THEN <<>>
    ELSE LET bp == BreakPoint(t, start)
             chunk == Trim(Slice(t, start, bp))
         IN (IF chunk # <<>> THEN <<chunk>> ELSE <<>>)
            \o ChunkTextFrom(t, NextStart(bp, Len(t)))

\* chunkText(text)
ChunkText(t) == ChunkTextFrom(t, 0)

\* focusAreas of the options createTranscriptionNote passes to summarize()
FocusAreas(st) ==
    (IF st.includeTopics THEN {"topics"} ELSE {})
    \cup (IF st.includeDecisions THEN {"decisions"} ELSE {})
    \cup (IF st.includeQuestions THEN {"questions"} ELSE {})

\* the summary text of chunks cks, every summarizeChunk promise fulfilled
SummaryOfChunks(cks) ==
    Str(Join(ChunkSummaries(cks, [n \in 1..Len(cks) |-> "fulfilled"])))

\* what summarize(text, options) returns when every chunk promise is
\* fulfilled; options is not read
SummarizeText(t, options) ==
    [summary |-> SummaryOfChunks(ChunkText(Chars(t))),
     topics |-> ExtractTopics(t),
     decisions |-> ExtractDecisions(t),
     questions |-> ExtractQuestions(t)]

-----------------------------------------------------------------------------
(* The transcripts of the voice memos *)

\* the task scenario: an obligation, then an urgent request
TwoTasks == "I need to call Bob tomorrow. This is urgent: send the report."

\* the same task three times: twice by one pattern, once by another
Repeated == "todo: call Bob. task: call bob. I need to CALL BOB."

\* topics, decisions and questions
Meeting == "We discussed the budget. We decided to hire Ann. Who will pay?"

\* a task with a priority and a due date, and a topic
Dated == "Urgent: fix the build by 3/4. We talked about testing."

\* a task with a due date and tags, and a key point
Tagged == "Remember to email Ann by friday #hr @ann. Note the main point."

\* a question, a key point and a decision, no topic and no task
Closing == "What is next? In summary we agreed to ship."

\* white space only
Blank == "   "

\* a mention before a hashtag that is given twice
Mentioned == "Todo: ask @bob about #q3 and #q3."

\* escalation words of several tiers in one matched span
Tiers == "High priority: book the room soon. I must pay eventually or immediately."

\* the last sentence has no terminator
Unfinished == "We met today. The key point is cost"

Memos == Transcripts
         \cup {TwoTasks, Repeated, Meeting, Dated, Tagged, Closing, Blank,
               Mentioned, Tiers, Unfinished}

\* analyze(t) and summarize(t) of every memo, computed once
AnalysisTable == [t \in Memos |-> AnalyzeWith(t, ZeroIndex)]
SummaryTable == [t \in Memos |-> SummarizeText(t, {})]

\* this.analysisService.analyze(t) for a memo t; every matchAll starts at
\* index 0
Analyze(t) == AnalysisTable[t]

\* this.summarizationService.summarize(t, options) for a memo t, every chunk
\* promise fulfilled
Summarize(t, options) == SummaryTable[t]

-----------------------------------------------------------------------------
(* createTranscriptionNote: the note content as a sequence of lines *)

\* no summary: summarization is disabled or summarize() threw
NoSummary == <<>>

\* front matter and title
NoteHead ==
    <<"---", "type: voice-memo", "created", "---", "",
      "# Voice Memo Transcription", "">>

\* if (summary) { formatSummary, '## Full Transcription', job.result }
\* else { job.result }
NoteBody(res, sm) ==
    IF sm # NoSummary
    THEN FormatSummary(sm[1]) \o <<"", "## Full Transcription", "", res, "">>
    ELSE <<res, "">>

\* if (extractTasks && analysis.tasks.length > 0) { '## Tasks', ... }
TaskSection(st, tasks) ==
    IF st.extractTasks /\ Len(tasks) > 0
    THEN <<"", "## Tasks">> \o FormatTasks(tasks) \o <<"">>
    ELSE <<>>

\* if (extractKeyPoints && analysis.keyPoints.length > 0) { '## Key Points', ... }
KeyPointSection(st, keyPoints) ==
    IF st.extractKeyPoints /\ Len(keyPoints) > 0
    THEN <<"", "## Key Points">> \o Bullets(keyPoints) \o <<"">>
    ELSE <<>>

\* the sections that follow the transcript, for the analysis an
NoteTail(st, an) ==
    TaskSection(st, an.tasks) \o KeyPointSection(st, an.keyPoints)

\* variant: the task section comes last
NoteContent_TasksLast(res, sm, st) ==
    NoteHead \o NoteBody(res, sm)
    \o KeyPointSection(st, Analyze(res).keyPoints)
    \o TaskSection(st, Analyze(res).tasks)

\* contentParts of createTranscriptionNote; sm = <<r>> is the summary r
NoteContent(res, sm, st) ==
    NoteHead \o NoteBody(res, sm) \o NoteTail(st, Analyze(res))

-----------------------------------------------------------------------------
(* TranscriptionService: the queue *)

NoNote == <<>>

\* variant: the isProcessing test is missing from the guard
GuardReturns_NoBusyTest(q, ip) == Len(q) = 0

\* processQueue: if (this.isProcessing || this.queue.length === 0) return;
GuardReturns(q, ip) == ip \/ Len(q) = 0

\* processQueue: if (this.queue.length >= 10) throw QUEUE_FULL
QueueFull(q) == Len(q) >= QUEUE_THRESHOLD

\* variant: the newest job is taken instead of the oldest
NextJob_Newest(q) == q[Len(q)]

\* processQueue: const job = this.queue[0]
NextJob(q) == q[1]

\* variant: the finished job is left in the queue
Shift_Forgotten(q) == q

\* this.queue.shift()
Shift(q) == IF Len(q) = 0 THEN q ELSE Tail(q)

\* processQueue() up to its first await, called on queue q with
\* isProcessing = ip, job statuses st, invocation positions p and
\* in-flight count n; returns synchronously to its caller in every case
\* (the QUEUE_FULL throw rejects the promise nobody awaits).
ProcessQueue(q, ip, st, p, n) ==
    /\ queue' = q
    /\ IF GuardReturns(q, ip)
       THEN /\ isProcessing' = ip
            /\ status' = st
            /\ pc' = p
            /\ inFlight' = n
            /\ UNCHANGED <<unhandled, startOrder>>
       ELSE IF QueueFull(q)
       THEN /\ isProcessing' = ip
            /\ status' = st
            /\ pc' = p
            /\ inFlight' = n
            /\ unhandled' = "QUEUE_FULL"
            /\ UNCHANGED startOrder
       ELSE /\ isProcessing' = TRUE
            /\ status' = [st EXCEPT ![NextJob(q)] = "processing"]
            /\ pc' = [p EXCEPT ![NextJob(q)] = "transcribing"]
            /\ inFlight' = n + 1
            /\ startOrder' = Append(startOrder, NextJob(q))
            /\ UNCHANGED unhandled

\* transcribe(audioBlob): push the job, call processQueue(), return the id
Transcribe ==
    /\ submitted < MaxJobs
    /\ LET j == submitted + 1 IN
        /\ submitted' = j
        /\ ProcessQueue(Append(queue, j), isProcessing,
                        [status EXCEPT ![j] = "pending"], pc, inFlight)
        /\ lastCall' = [job |-> j, outcome |-> "jobId"]
    /\ UNCHANGED <<result, jobError, summary, note, settings, summarizeThrew>>
    /\ UNCHANGED <<svars, avars, wvars>>

\* the catch block of processQueue: job.status = 'failed', job.error, re-throw.
\* The throw leaves processQueue before queue.shift() and isProcessing = false.
CatchFailure(j, code) ==
    /\ status' = [status EXCEPT ![j] = "failed"]
    /\ jobError' = [jobError EXCEPT ![j] = code]
    /\ pc' = [pc EXCEPT ![j] = "threw"]
    /\ unhandled' = code
    /\ inFlight' = inFlight - 1
    /\ UNCHANGED <<queue, isProcessing, startOrder>>

\* createTranscriptionNote after the summary step: build contentParts and
\* call vault.create (awaited)
HandToVault(j, res, sm) ==
    /\ note' = [note EXCEPT ![j] = NoteContent(res, sm, settings)]
    /\ pc' = [pc EXCEPT ![j] = "creating"]

\* await processTranscription(job.audioBlob) resolves with transcript t:
\* job.status = 'completed', job.result = t, then createTranscriptionNote(job)
\* runs up to its first await, or throws (if (!job.result)), which rejects
\* the promise processQueue awaits
TranscriptionResolves(j, t) ==
    /\ pc[j] = "transcribing"
    /\ status' = [status EXCEPT ![j] = "completed"]
    /\ result' = [result EXCEPT ![j] = t]
    /\ IF t = ""
       THEN /\ pc' = [pc EXCEPT ![j] = "noteRejected"]
            /\ UNCHANGED note
       ELSE IF settings.summarizationEnabled
       THEN /\ pc' = [pc EXCEPT ![j] = "summarizing"]
            /\ UNCHANGED note
       ELSE HandToVault(j, t, NoSummary)
    /\ UNCHANGED <<queue, isProcessing, jobError, unhandled, startOrder,
                   inFlight, summary, settings, submitted, lastCall,
                   summarizeThrew>>
    /\ UNCHANGED <<svars, avars, wvars>>

\* the rejection of createTranscriptionNote (NOTE_CREATION_FAILED) reaches
\* the catch block of processQueue
NoteCreationRejected(j) ==
    /\ pc[j] = "noteRejected"
    /\ CatchFailure(j, "NOTE_CREATION_FAILED")
    /\ UNCHANGED <<result, summary, note, settings, submitted, lastCall,
                   summarizeThrew>>
    /\ UNCHANGED <<svars, avars, wvars>>

\* await processTranscription(job.audioBlob) rejects
TranscriptionRejects(j, code) ==
    /\ pc[j] = "transcribing"
    /\ CatchFailure(j, code)
    /\ UNCHANGED <<result, summary, note, settings, submitted, lastCall,
                   summarizeThrew>>
    /\ UNCHANGED <<svars, avars, wvars>>

\* await this.summarizationService.summarize(job.result, ...) resolves
SummarizeResolves(j) ==
    /\ pc[j] = "summarizing"
    /\ summary' = [summary EXCEPT ![j] =
                        <<Summarize(result[j], FocusAreas(settings))>>]
    /\ HandToVault(j, result[j], summary'[j])
    /\ UNCHANGED <<queue, isProcessing, status, result, jobError, settings,
                   submitted, lastCall, unhandled, startOrder, inFlight,
                   summarizeThrew>>
    /\ UNCHANGED <<svars, avars, wvars>>

\* variant: no try/catch around summarize(), the rejection fails the job
SummarizeRejects_Uncaught(j) ==
    /\ pc[j] = "summarizing"
    /\ summarizeThrew' = [summarizeThrew EXCEPT ![j] = TRUE]
    /\ CatchFailure(j, "UNKNOWN")
    /\ UNCHANGED <<result, summary, note, settings, submitted, lastCall>>
    /\ UNCHANGED <<svars, avars, wvars>>

\* await summarize(...) rejects: caught, Notice, "Continue without summary"
SummarizeRejects(j) ==
    /\ pc[j] = "summarizing"
    /\ summarizeThrew' = [summarizeThrew EXCEPT ![j] = TRUE]
    /\ HandToVault(j, result[j], summary[j])
    /\ UNCHANGED <<queue, isProcessing, status, result, jobError, summary,
                   settings, submitted, lastCall, unhandled, startOrder,
                   inFlight>>
    /\ UNCHANGED <<svars, avars, wvars>>

\* await vault.create(...) resolves: createTranscriptionNote returns, Notice,
\* this.queue.shift(); this.isProcessing = false; this.processQueue().
\* The locals of the invocation go out of scope, and so does the job object
\* once the queue no longer refers to it.
VaultCreateResolves(j) ==
    /\ pc[j] = "creating"
    /\ ProcessQueue(Shift(queue), FALSE, status,
                    [pc EXCEPT ![j] = "returned"], inFlight - 1)
    /\ summary' = [summary EXCEPT ![j] = NoSummary]
    /\ note' = [note EXCEPT ![j] = NoNote]
    /\ summarizeThrew' = [summarizeThrew EXCEPT ![j] = FALSE]
    /\ result' = [result EXCEPT ![j] =
                    IF j \in SeqToSet(Shift(queue)) THEN @ ELSE "undefined"]
    /\ UNCHANGED <<jobError, settings, submitted, lastCall>>
    /\ UNCHANGED <<svars, avars, wvars>>

\* await vault.create(...) rejects with a plain Error: caught by processQueue,
\* wrapped as TranscriptionErrorCode.UNKNOWN
VaultCreateRejects(j) ==
    /\ pc[j] = "creating"
    /\ CatchFailure(j, "UNKNOWN")
    /\ UNCHANGED <<result, summary, note, settings, submitted, lastCall,
                   summarizeThrew>>
    /\ UNCHANGED <<svars, avars, wvars>>

\* getJobStatus(jobId) for the id of job j: the job is looked up in
\* this.queue; <<>> stands for null
GetJobStatus(j) ==
    IF j \in SeqToSet(queue)
    THEN <<[status |-> status[j], result |-> result[j], error |-> jobError[j]]>>
    ELSE <<>>

\* the settings tab saves a new value into this.plugin.settings
UpdateSettings(s) ==
    /\ s # settings
    /\ settings' = s
    /\ UNCHANGED <<queue, isProcessing, status, result, jobError, pc, summary,
                   note, submitted, lastCall, unhandled, startOrder, inFlight,
                   summarizeThrew>>
    /\ UNCHANGED <<svars, avars, wvars>>

\* state after `new TranscriptionService(plugin)`; no summarize() call
Init ==
    /\ queue = <<>>
    /\ isProcessing = FALSE
    /\ status = [j \in Jobs |-> "none"]
    /\ result = [j \in Jobs |-> "undefined"]
    /\ jobError = [j \in Jobs |-> "undefined"]
    /\ pc = [j \in Jobs |-> "idle"]
    /\ summary = [j \in Jobs |-> NoSummary]
    /\ note = [j \in Jobs |-> NoNote]
    /\ settings = DefaultSettings
    /\ submitted = 0
    /\ lastCall = [job |-> 0, outcome |-> "none"]
    /\ unhandled = "none"
    /\ startOrder = <<>>
    /\ inFlight = 0
    /\ summarizeThrew = [j \in Jobs |-> FALSE]
    /\ text = <<>>
    /\ startIndex = 0
    /\ ranges = <<>>
    /\ chunks = <<>>
    /\ chunkState = <<>>
    /\ settled = <<>>
    /\ sumPc = "idle"
    /\ sumResult = <<>>
    /\ lastIndex = ZeroIndex
    /\ calls = <<>>
    /\ worker = 0
    /\ isInitialized = FALSE
    /\ created = 0
    /\ alive = {}
    /\ initializing = {}
    /\ cleanups = <<>>

Next ==
    \/ Transcribe
    \/ \E j \in Jobs, t \in Transcripts : TranscriptionResolves(j, t)
    \/ \E j \in Jobs, c \in TranscriptionFailures : TranscriptionRejects(j, c)
    \/ \E j \in Jobs : NoteCreationRejected(j)
    \/ \E j \in Jobs : SummarizeResolves(j)
    \/ \E j \in Jobs : SummarizeRejects(j)
    \/ \E j \in Jobs : VaultCreateResolves(j)
    \/ \E j \in Jobs : VaultCreateRejects(j)
    \/ \E s \in SettingsValues : UpdateSettings(s)

Spec == Init /\ [][Next]_vars

\* the steps that do not wait for the user: an awaited promise settles and the
\* code after the await runs
PromiseSettles ==
    \/ \E j \in Jobs, t \in Transcripts : TranscriptionResolves(j, t)
    \/ \E j \in Jobs, c \in TranscriptionFailures : TranscriptionRejects(j, c)
    \/ \E j \in Jobs : NoteCreationRejected(j)
    \/ \E j \in Jobs : SummarizeResolves(j)
    \/ \E j \in Jobs : SummarizeRejects(j)
    \/ \E j \in Jobs : VaultCreateResolves(j)
    \/ \E j \in Jobs : VaultCreateRejects(j)

\* the orchestrator with the event loop's guarantee that every awaited
\* promise settles and its continuation runs; transcribe() calls and settings
\* changes happen or not, as the user likes
LiveSpec == Spec /\ WF_vars(PromiseSettles)


\* one iteration of the while loop of chunkText
ChunkIter ==
    /\ sumPc = "chunking"
    /\ startIndex < Len(text)
    /\ LET bp == BreakPoint(text, startIndex)
           chunk == Trim(Slice(text, startIndex, bp))
       IN /\ ranges' = Append(ranges, <<startIndex, bp>>)
          /\ chunks' = IF chunk # <<>> THEN Append(chunks, chunk) ELSE chunks
          /\ startIndex' = NextStart(bp, Len(text))
    /\ UNCHANGED <<text, chunkState, settled, sumPc, sumResult>>
    /\ UNCHANGED <<qvars, avars, wvars>>

\* chunkText returns; chunks.map(chunk => this.summarizeChunk(chunk, options))
\* starts one promise per chunk and summarize() awaits Promise.all
ChunkReturn ==
    /\ sumPc = "chunking"
    /\ startIndex >= Len(text)
    /\ chunkState' = [i \in 1..Len(chunks) |-> "pending"]
    /\ sumPc' = "awaiting"
    /\ UNCHANGED <<text, startIndex, ranges, chunks, settled, sumResult>>
    /\ UNCHANGED <<qvars, avars, wvars>>

\* the promise of summarizeChunk(chunks[i]) is fulfilled
ChunkFulfilled(i) ==
    /\ sumPc \in {"awaiting", "threw"}
    /\ chunkState[i] = "pending"
    /\ chunkState' = [chunkState EXCEPT ![i] = "fulfilled"]
    /\ settled' = Append(settled, i)
    /\ UNCHANGED <<text, startIndex, ranges, chunks, sumPc, sumResult>>
    /\ UNCHANGED <<qvars, avars, wvars>>

\* the promise of summarizeChunk(chunks[i]) is rejected (a summarizer that
\* replaces the stub, as its TODO announces, can fail)
ChunkRejected(i) ==
    /\ sumPc \in {"awaiting", "threw"}
    /\ chunkState[i] = "pending"
    /\ chunkState' = [chunkState EXCEPT ![i] = "rejected"]
    /\ settled' = Append(settled, i)
    /\ UNCHANGED <<text, startIndex, ranges, chunks, sumPc, sumResult>>
    /\ UNCHANGED <<qvars, avars, wvars>>

\* the topics, decisions and questions of the chunks cks, chunk after chunk
RECURSIVE PerChunk(_)
PerChunk(cks) ==
    IF Len(cks) = 0
    THEN [topics |-> <<>>, decisions |-> <<>>, questions |-> <<>>]
    ELSE [topics |-> ExtractTopics(Str(cks[1])) \o PerChunk(Tail(cks)).topics,
          decisions |-> ExtractDecisions(Str(cks[1]))
                            \o PerChunk(Tail(cks)).decisions,
          questions |-> ExtractQuestions(Str(cks[1]))
                            \o PerChunk(Tail(cks)).questions]

\* variant: the insights are extracted from every chunk and concatenated
Insights_PerChunk(t, cks) == PerChunk(cks)

\* topics, decisions and questions of summarize(): extracted from the text
\* passed to summarize(), the chunks are not read
Insights(t, cks) ==
    [topics |-> ExtractTopics(t),
     decisions |-> ExtractDecisions(t),
     questions |-> ExtractQuestions(t)]

\* the SummaryResult object summarize() returns
ResultOf(combinedSummary, ins) ==
    [summary |-> combinedSummary,
     topics |-> ins.topics,
     decisions |-> ins.decisions,
     questions |-> ins.questions]

\* Promise.all resolved: combine the chunk summaries and return the result
SummarizeReturns ==
    /\ sumPc = "awaiting"
    /\ AllFulfilled(chunkState)
    /\ sumResult' = <<ResultOf(Join(Gathered(ChunkSummaries(chunks, chunkState),
                                           settled)),
                             Insights(Str(text), chunks))>>
    /\ sumPc' = "returned"
    /\ UNCHANGED <<text, startIndex, ranges, chunks, chunkState, settled>>
    /\ UNCHANGED <<qvars, avars, wvars>>

\* Promise.all rejected: catch, throw new TranscriptionError('Failed to
\* generate summary', UNKNOWN)
SummarizeThrows ==
    /\ sumPc = "awaiting"
    /\ SomeRejected(chunkState)
    /\ sumPc' = "threw"
    /\ UNCHANGED <<text, startIndex, ranges, chunks, chunkState, settled,
                   sumResult>>
    /\ UNCHANGED <<qvars, avars, wvars>>

-----------------------------------------------------------------------------
(* The texts summarize() is called with *)

\* length of the longest text
MaxLen == 2100

\* a text of n characters: periods at the positions p with p % gap = phase,
\* a space every seventh character, `fill` elsewhere
MakeText(n, gap, phase, fill) ==
    [i \in 1..n |->
        IF (i - 1) % gap = phase THEN "."
        ELSE IF (i - 1) % 7 = 3 THEN " "
        ELSE fill]

Lengths == {0, 1, SEARCH_WINDOW, CHUNK_SIZE - 1, CHUNK_SIZE, CHUNK_SIZE + 1,
            CHUNK_SIZE + SEARCH_WINDOW - 1, CHUNK_SIZE + SEARCH_WINDOW,
            CHUNK_SIZE + SEARCH_WINDOW + 1,
            2 * CHUNK_SIZE - CHUNK_OVERLAP, MaxLen}

\* period patterns: none (phase beyond every position), everywhere, periodic,
\* and a single period around the first window boundary
Patterns ==
    {[gap |-> MaxLen + 2, phase |-> MaxLen + 1],
     [gap |-> 1, phase |-> 0],
     [gap |-> SEARCH_WINDOW, phase |-> 0],
     [gap |-> 2 * SEARCH_WINDOW - 3, phase |-> 0]}
    \cup {[gap |-> MaxLen + 2, phase |-> CHUNK_SIZE + d] :
            d \in {0 - SEARCH_WINDOW - 1, 0 - SEARCH_WINDOW, -1, 0,
                   SEARCH_WINDOW - 1, SEARCH_WINDOW}}

\* a text of two chunks with the sentences of Meeting in their overlap
Overlapping ==
    MakeText(CHUNK_SIZE - CHUNK_OVERLAP + 80, MaxLen + 2, MaxLen + 1, "a")
    \o Chars(Meeting)
    \o MakeText(2 * CHUNK_OVERLAP, MaxLen + 2, MaxLen + 1, "a")

Texts == {MakeText(n, p.gap, p.phase, f) :
            n \in Lengths, p \in Patterns, f \in {"a", " "}}
         \cup {Chars(t) : t \in Memos}
         \cup {Overlapping}

\* summarize(text) has been called and enters chunkText; the orchestrator
\* is in its initial state
SumInit ==
    /\ queue = <<>>
    /\ isProcessing = FALSE
    /\ status = [j \in Jobs |-> "none"]
    /\ result = [j \in Jobs |-> "undefined"]
    /\ jobError = [j \in Jobs |-> "undefined"]
    /\ pc = [j \in Jobs |-> "idle"]
    /\ summary = [j \in Jobs |-> NoSummary]
    /\ note = [j \in Jobs |-> NoNote]
    /\ settings = DefaultSettings
    /\ submitted = 0
    /\ lastCall = [job |-> 0, outcome |-> "none"]
    /\ unhandled = "none"
    /\ startOrder = <<>>
    /\ inFlight = 0
    /\ summarizeThrew = [j \in Jobs |-> FALSE]
    /\ text \in Texts
    /\ startIndex = 0
    /\ ranges = <<>>
    /\ chunks = <<>>
    /\ chunkState = <<>>
    /\ settled = <<>>
    /\ sumPc = "chunking"
    /\ sumResult = <<>>
    /\ lastIndex = ZeroIndex
    /\ calls = <<>>
    /\ worker = 0
    /\ isInitialized = FALSE
    /\ created = 0
    /\ alive = {}
    /\ initializing = {}
    /\ cleanups = <<>>

SumNext ==
    \/ ChunkIter
    \/ ChunkReturn
    \/ \E i \in 1..Len(chunkState) : ChunkFulfilled(i)
    \/ \E i \in 1..Len(chunkState) : ChunkRejected(i)
    \/ SummarizeReturns
    \/ SummarizeThrows

SumSpec == SumInit /\ [][SumNext]_vars

-----------------------------------------------------------------------------
(* The orchestrator with cleanup() *)

\* number of transcribe() calls in one behaviour of CleanSpec
CleanJobs == 3

\* cleanup(): this.queue = []; this.isProcessing = false. The job objects and
\* the processQueue() invocations that await are not touched.
\* this.localService.cleanup() returns at once: no worker exists (worker = 0).
Cleanup ==
    /\ queue' = <<>>
    /\ isProcessing' = FALSE
    /\ UNCHANGED <<status, result, jobError, pc, summary, note, settings,
                   submitted, lastCall, unhandled, startOrder, inFlight,
                   summarizeThrew>>
    /\ UNCHANGED <<svars, avars, wvars>>

CleanNext ==
    \/ (submitted < CleanJobs /\ Transcribe)
    \/ PromiseSettles
    \/ Cleanup

CleanSpec == Init /\ [][CleanNext]_vars

-----------------------------------------------------------------------------
(* WhisperLocalService: the worker, initialize(), cleanup() and its timer *)

\* number of Worker objects one behaviour constructs
MaxWorkers == 3

\* number of cleanup() invocations one behaviour makes
MaxCleanups == 3

\* one cleanup() invocation that reached its promise: currentWorker, whether
\* handleCleanupMessage/handleCleanupError are still registered on it, whether
\* its setTimeout is still armed, how the promise settled, and who awaits it
CleanupRecord(w, by) ==
    [worker |-> w, listening |-> TRUE, timer |-> TRUE, settled |-> "no",
     caller |-> by]

\* the listeners of the cleanup() invocations registered on worker w
ListeningOn(w) ==
    {c \in 1..Len(cleanups) : cleanups[c].listening /\ cleanups[c].worker = w}

\* the invocations among cs that are still pending and are awaited by
\* updateConfig(), which goes on with initialize()
Reinitializing(cs) ==
    {c \in cs : cleanups[c].settled = "no" /\ cleanups[c].caller = "updateConfig"}

\* the handlers of cs ran: listeners removed, pending promises settled as how
Handled(cl, cs, how) ==
    [c \in 1..Len(cl) |->
        IF c \in cs
        THEN [cl[c] EXCEPT !.listening = FALSE,
                           !.settled = IF @ = "no" THEN how ELSE @]
        ELSE cl[c]]

\* the closure cleanup() of the promise executor ran: this.worker is
\* terminated and set to null, isInitialized is reset; then the k pending
\* updateConfig() calls continue with initialize(), each constructing a Worker
\* because isInitialized is false
ClosureThenInitialize(k) ==
    /\ created + k <= MaxWorkers
    /\ isInitialized' = FALSE
    /\ created' = created + k
    /\ worker' = IF k = 0 THEN 0 ELSE created + k
    /\ alive' = (alive \ {worker}) \cup ((created + 1)..(created + k))
    /\ initializing' = initializing \cup ((created + 1)..(created + k))

\* initialize(): returns at once when isInitialized; otherwise constructs a
\* Worker, stores it in this.worker, registers handleInitMessage and posts
\* 'initialize'. A worker this.worker held before is not terminated.
WhisperInitialize ==
    /\ ~isInitialized
    /\ created < MaxWorkers
    /\ created' = created + 1
    /\ worker' = created + 1
    /\ alive' = alive \cup {created + 1}
    /\ initializing' = initializing \cup {created + 1}
    /\ UNCHANGED <<isInitialized, cleanups>>
    /\ UNCHANGED <<qvars, svars, avars>>

\* handleInitMessage on an 'initialized' message of worker w
HandleInitMessage(w) ==
    /\ w \in initializing /\ w \in alive
    /\ isInitialized' = TRUE
    /\ initializing' = initializing \ {w}
    /\ UNCHANGED <<worker, created, alive, cleanups>>
    /\ UNCHANGED <<qvars, svars, avars>>

\* handleInitMessage on an 'error' message of worker w: initialize() throws,
\* the worker stays in this.worker
HandleInitError(w) ==
    /\ w \in initializing /\ w \in alive
    /\ initializing' = initializing \ {w}
    /\ UNCHANGED <<worker, isInitialized, created, alive, cleanups>>
    /\ UNCHANGED <<qvars, svars, avars>>

\* cleanup() up to its await: returns at once without a worker; otherwise
\* registers the two listeners on this.worker, posts 'cleanup' and arms the
\* 5 second timer
WhisperCleanup ==
    /\ worker # 0
    /\ Len(cleanups) < MaxCleanups
    /\ cleanups' = Append(cleanups, CleanupRecord(worker, "other"))
    /\ UNCHANGED <<worker, isInitialized, created, alive, initializing>>
    /\ UNCHANGED <<qvars, svars, avars>>

\* updateConfig() on an initialized service: await this.cleanup(), then
\* await this.initialize()
UpdateConfig ==
    /\ isInitialized
    /\ worker # 0
    /\ Len(cleanups) < MaxCleanups
    /\ cleanups' = Append(cleanups, CleanupRecord(worker, "updateConfig"))
    /\ UNCHANGED <<worker, isInitialized, created, alive, initializing>>
    /\ UNCHANGED <<qvars, svars, avars>>

\* a 'status' message with initialized false arrives from worker w: every
\* handleCleanupMessage registered on w removes its listeners and runs the
\* closure, which resolves its promise
HandleCleanupMessage(w) ==
    /\ w \in alive
    /\ ListeningOn(w) # {}
    /\ cleanups' = Handled(cleanups, ListeningOn(w), "message")
    /\ ClosureThenInitialize(Cardinality(Reinitializing(ListeningOn(w))))
    /\ UNCHANGED <<qvars, svars, avars>>

\* an 'error' event of worker w: worker.onerror = handleWorkerError calls
\* this.cleanup() (a new invocation when this.worker is set), then every
\* handleCleanupError registered on w removes its listeners, runs the closure
\* and rejects; the catch block finds nothing left to do
HandleCleanupError(w) ==
    /\ w \in alive
    /\ ListeningOn(w) # {}
    /\ Len(cleanups) < MaxCleanups
    /\ cleanups' = Handled(IF worker # 0
                           THEN Append(cleanups, CleanupRecord(worker, "other"))
                           ELSE cleanups,
                           ListeningOn(w), "error")
    /\ ClosureThenInitialize(Cardinality(Reinitializing(ListeningOn(w))))
    /\ UNCHANGED <<qvars, svars, avars>>

\* the setTimeout callback of cleanup() invocation c, 5 seconds after the
\* call: runs the closure and rejects; the timer is never cleared, so it also
\* fires when the promise was settled before
CleanupTimeout(c) ==
    /\ cleanups[c].timer
    /\ cleanups' = [cleanups EXCEPT ![c].timer = FALSE,
                                    ![c].settled = IF @ = "no" THEN "timeout" ELSE @]
    /\ ClosureThenInitialize(Cardinality(Reinitializing({c})))
    /\ UNCHANGED <<qvars, svars, avars>>

WhisperNext ==
    \/ WhisperInitialize
    \/ \E w \in 1..MaxWorkers : HandleInitMessage(w)
    \/ \E w \in 1..MaxWorkers : HandleInitError(w)
    \/ WhisperCleanup
    \/ UpdateConfig
    \/ \E w \in 1..MaxWorkers : HandleCleanupMessage(w)
    \/ \E w \in 1..MaxWorkers : HandleCleanupError(w)
    \/ \E c \in 1..Len(cleanups) : CleanupTimeout(c)

WhisperSpec == Init /\ [][WhisperNext]_vars

-----------------------------------------------------------------------------
(* TextAnalysisService.analyze called repeatedly on one instance *)

\* number of analyze() calls in one behaviour
MaxCalls == 3

\* variant: the loop runs pattern.exec on the pattern itself and stops at the
\* first match, which leaves the pattern's lastIndex behind that match
LastIndexAfter_FirstMatch(t, p, li) ==
    LET m == Exec(t, ToLowerCase(t), TaskPatterns[p], li + 1)
    IN IF Len(m) = 0 THEN 0 ELSE m[1].end - 1

\* lastIndex of pattern p after `for (const match of text.matchAll(pattern))`:
\* matchAll iterates over a clone, the pattern itself is not written
LastIndexAfter(t, p, li) == li

\* analyze(t) on the service instance
AnalyzeCall(t) ==
    /\ Len(calls) < MaxCalls
    /\ calls' = Append(calls,
                       [text |-> t,
                        result |-> IF lastIndex = ZeroIndex THEN Analyze(t)
                                   ELSE AnalyzeWith(t, lastIndex)])
    /\ lastIndex' = [p \in PatternIds |-> LastIndexAfter(t, p, lastIndex[p])]
    /\ UNCHANGED <<qvars, svars, wvars>>

AnaNext == \E t \in Memos : AnalyzeCall(t)

AnaSpec == Init /\ [][AnaNext]_vars

-----------------------------------------------------------------------------
(* One voice memo under every combination of settings *)

\* number of transcribe() calls in one behaviour of NoteSpec
NoteJobs == 1

\* state after `new TranscriptionService(plugin)` with the settings loaded
NoteInit ==
    /\ queue = <<>>
    /\ isProcessing = FALSE
    /\ status = [j \in Jobs |-> "none"]
    /\ result = [j \in Jobs |-> "undefined"]
    /\ jobError = [j \in Jobs |-> "undefined"]
    /\ pc = [j \in Jobs |-> "idle"]
    /\ summary = [j \in Jobs |-> NoSummary]
    /\ note = [j \in Jobs |-> NoNote]
    /\ settings \in AllSettings
    /\ submitted = 0
    /\ lastCall = [job |-> 0, outcome |-> "none"]
    /\ unhandled = "none"
    /\ startOrder = <<>>
    /\ inFlight = 0
    /\ summarizeThrew = [j \in Jobs |-> FALSE]
    /\ text = <<>>
    /\ startIndex = 0
    /\ ranges = <<>>
    /\ chunks = <<>>
    /\ chunkState = <<>>
    /\ settled = <<>>
    /\ sumPc = "idle"
    /\ sumResult = <<>>
    /\ lastIndex = ZeroIndex
    /\ calls = <<>>
    /\ worker = 0
    /\ isInitialized = FALSE
    /\ created = 0
    /\ alive = {}
    /\ initializing = {}
    /\ cleanups = <<>>

NoteNext ==
    \/ (submitted < NoteJobs /\ Transcribe)
    \/ \E j \in Jobs, t \in Memos : TranscriptionResolves(j, t)
    \/ \E j \in Jobs, c \in TranscriptionFailures : TranscriptionRejects(j, c)
    \/ \E j \in Jobs : NoteCreationRejected(j)
    \/ \E j \in Jobs : SummarizeResolves(j)
    \/ \E j \in Jobs : SummarizeRejects(j)
    \/ \E j \in Jobs : VaultCreateResolves(j)
    \/ \E j \in Jobs : VaultCreateRejects(j)

NoteSpec == NoteInit /\ [][NoteNext]_vars

-----------------------------------------------------------------------------
(* Properties of the orchestrator (specification Spec) *)

\* invocations of processQueue() that hold a job and have not ended
ActivePcs == {"transcribing", "noteRejected", "summarizing", "creating"}

Active == {j \in Jobs : pc[j] \in ActivePcs}

\* the lines of note n from header h up to the blank line that ends the section
RECURSIVE SectionFrom(_, _)
SectionFrom(n, i) ==
    IF i > Len(n) \/ n[i] = "" THEN <<>> ELSE <<n[i]>> \o SectionFrom(n, i + 1)

Section(n, h) ==
    IF h \notin SeqToSet(n) THEN <<>>
    ELSE SectionFrom(n, CHOOSE i \in 1..Len(n) :
                            n[i] = h /\ \A k \in 1..(i - 1) : n[k] # h)

\* C1: once the failure of a job has been handled, the job has been removed
\* from the queue, and when jobs are waiting one of them has been started
\* (the orchestrator advanced to the next queued job).
C1_FailedJobAdvances ==
    \A j \in Jobs :
        pc[j] = "threw" =>
            /\ j \notin SeqToSet(queue)
            /\ (\E k \in SeqToSet(queue) : status[k] = "pending")
                   => Active # {}

\* C2: 'completed' and 'failed' are terminal: a job that has one of these
\* statuses keeps it in every later state.
C2_TerminalStatus ==
    [][\A j \in Jobs :
          status[j] \in {"completed", "failed"} => status'[j] = status[j]]_vars

\* C3: the queue never holds more than the threshold number of jobs: the
\* job of a transcribe() call made once the backlog has reached the threshold
\* is not in the queue, the call having given its caller the QUEUE_FULL error.
C3_QueueFullRejected ==
    /\ Len(queue) <= QUEUE_THRESHOLD
    /\ (Len(queue) > 0 /\ lastCall.job >= queue[1] + QUEUE_THRESHOLD) =>
          (lastCall.outcome = "QUEUE_FULL"
           /\ lastCall.job \notin SeqToSet(queue))

\* C4: at most one job is being processed at any moment: at most one
\* processQueue() invocation is between taking its job and ending, and at
\* most one job has status 'processing'.
C4_SingleJob ==
    /\ inFlight <= 1
    /\ Cardinality(Active) <= 1
    /\ Cardinality({j \in Jobs : status[j] = "processing"}) <= 1

\* a transcribe() call arrived while an earlier job was in flight
C4_Witness ==
    \E j \in Active : lastCall.job > j /\ Len(queue) >= 3 /\ queue[1] = j

\* C5: jobs enter 'processing' in submission order (job ids count the
\* transcribe() calls), and no started job has an earlier-submitted job
\* still pending in the queue.
C5_Fifo ==
    /\ \A i \in 1..(Len(startOrder) - 1) : startOrder[i] < startOrder[i + 1]
    /\ \A k \in SeqToSet(queue), j \in SeqToSet(queue) :
          (k < j /\ status[k] = "pending") => status[j] = "pending"

\* several jobs have been started one after the other with jobs still waiting
C5_Witness ==
    /\ Len(startOrder) >= 3
    /\ Len(queue) >= 3
    /\ status[queue[Len(queue)]] = "pending"

\* C6: no job enters 'processing' twice, also after it has failed.
C6_NoRetry ==
    \A i \in 1..Len(startOrder), k \in 1..Len(startOrder) :
        i # k => startOrder[i] # startOrder[k]

\* a job has failed after an earlier one completed, and a job is waiting
C6_Witness ==
    \E j \in Jobs :
        /\ status[j] = "failed" /\ pc[j] = "threw"
        /\ Len(startOrder) >= 2
        /\ Len(queue) >= 2 /\ lastCall.job > j

\* C7: when summarize() throws, createTranscriptionNote goes on to hand a
\* note to the store with the job still 'completed'; the note has no
\* '## Summary' and no '## Full Transcription' line, and its '## Tasks' and
\* '## Key Points' sections equal those of the note built with a summary.
C7_SummaryFailureNotFatal ==
    [][\A j \in Jobs :
          (pc[j] = "summarizing" /\ summarizeThrew'[j]) =>
              /\ pc'[j] = "creating"
              /\ status'[j] = "completed"
              /\ "## Summary" \notin SeqToSet(note'[j])
              /\ "## Full Transcription" \notin SeqToSet(note'[j])
              /\ Section(note'[j], "## Tasks") =
                    Section(NoteContent(result[j], <<Summarize(result[j], {})>>,
                                        settings),
                            "## Tasks")
              /\ Section(note'[j], "## Key Points") =
                    Section(NoteContent(result[j], <<Summarize(result[j], {})>>,
                                        settings),
                            "## Key Points")]_vars

\* a note with tasks and key points is at the store after summarize() threw
C7_Witness ==
    \E j \in Jobs :
        /\ summarizeThrew[j] /\ pc[j] = "creating"
        /\ Len(Section(note[j], "## Tasks")) = 2
        /\ Len(Section(note[j], "## Key Points")) = 2

-----------------------------------------------------------------------------
(* Properties of the summarizer (specification SumSpec) *)

\* C8: summarize() returns a result only when summarizeChunk succeeded for
\* every chunk; once a chunk has failed summarize() does not return a result
\* and ends by throwing.
C8_NoPartialSummary ==
    /\ (sumPc = "returned" \/ sumResult # <<>>) =>
          \A i \in 1..Len(chunkState) : chunkState[i] = "fulfilled"
    /\ (\E i \in 1..Len(chunkState) : chunkState[i] = "rejected") =>
          (sumResult = <<>> /\ sumPc \in {"awaiting", "threw"})

\* summarize() threw although other chunks had been summarized
C8_Witness ==
    /\ sumPc = "threw"
    /\ Len(chunkState) >= 2
    /\ \E i \in 1..Len(chunkState) : chunkState[i] = "fulfilled"
    /\ \E i \in 1..Len(chunkState) : chunkState[i] = "rejected"

C10_RangesCover ==
    /\ Len(ranges) > 0 => ranges[1][1] = 0
    /\ \A i \in 1..(Len(ranges) - 1) : ranges[i + 1][1] <= ranges[i][2]
    /\ (sumPc # "chunking" /\ Len(text) > 0) =>
          (Len(ranges) > 0 /\ ranges[Len(ranges)][2] = Len(text))

\* a text of more than one window has been walked to its end
C10_Witness ==
    /\ sumPc = "awaiting"
    /\ Len(ranges) >= 3
    /\ Len(text) > 2 * CHUNK_SIZE

\* the text has a character that trim() keeps
HasInk(t) == \E i \in 1..Len(t) : t[i] \notin WhiteSpace

\* C11 as stated: whenever summarize() returns for a non-empty transcript,
\* the summary string of its result is non-empty.
C11_NonEmptySummary ==
    (sumPc = "returned" /\ Len(text) > 0) => Len(sumResult[1].summary) > 0

\* C11 amended: whenever summarize() returns for a transcript that holds a
\* character other than white space, the summary string is non-empty; for a
\* transcript of white space only it is empty.
C11_SummaryOfInk ==
    sumPc = "returned" => (HasInk(text) <=> Len(sumResult[1].summary) > 0)

\* summarize() returned for a text cut into several chunks
C11_Witness ==
    /\ sumPc = "returned"
    /\ HasInk(text) /\ Len(chunks) >= 2
    /\ Len(sumResult[1].summary) > 0

-----------------------------------------------------------------------------
(* Properties of the chunker's break points (specification SumSpec) *)

\* nominal end of the window that starts at s: start + size, or the end of text
NominalEnd(s) == Min(s + CHUNK_SIZE, Len(text))

\* the ranges whose window boundary is not the end of the text
InnerRanges == {n \in 1..Len(ranges) : NominalEnd(ranges[n][1]) < Len(text)}

\* JavaScript positions lo..hi - 1 of the text hold no period
NoPeriod(lo, hi) == \A p \in lo..(hi - 1) : text[p + 1] # "."

\* C20 as stated: a chunk whose window boundary is not the end of the text
\* ends exactly at its nominal end or just after a period that lies within
\* the 50 characters before it; it never extends past the nominal end and is
\* never longer than the chunk size.
C20_NeverPastNominalEnd ==
    \A n \in InnerRanges :
        LET s == ranges[n][1]
            e == ranges[n][2]
        IN /\ e <= NominalEnd(s)
           /\ e - s <= CHUNK_SIZE
           /\ (e = NominalEnd(s)
               \/ (text[e] = "." /\ e > NominalEnd(s) - SEARCH_WINDOW))

\* C20 amended: the chunker takes the first period at or after
\* max(start, nominal end - 50), provided it lies less than 50 characters
\* past the nominal end, and ends the chunk just after it; without such a
\* period the chunk ends exactly at the nominal end.  A chunk may thus extend
\* up to 50 characters past its nominal end and is never longer than
\* size + 50.
C20_BreakWindow ==
    \A n \in InnerRanges :
        LET s == ranges[n][1]
            e == ranges[n][2]
            lo == Max(s, NominalEnd(s) - SEARCH_WINDOW)
        IN /\ e - s <= CHUNK_SIZE + SEARCH_WINDOW
           /\ \/ /\ text[e] = "."
                 /\ lo < e /\ e <= NominalEnd(s) + SEARCH_WINDOW
                 /\ NoPeriod(lo, e - 1)
              \/ /\ e = NominalEnd(s)
                 /\ NoPeriod(lo, Min(NominalEnd(s) + SEARCH_WINDOW, Len(text)))

\* a chunk ends after a period beyond its nominal end, and is longer than
\* the chunk size
C20_Witness ==
    \E n \in InnerRanges :
        /\ ranges[n][2] > NominalEnd(ranges[n][1])
        /\ ranges[n][2] - ranges[n][1] > CHUNK_SIZE

-----------------------------------------------------------------------------
(* Properties of the text analysis (specification AnaSpec) *)

\* a task text after trimming and case folding
Fold(s) == ToLowerCase(TrimStr(s))

\* the candidate tasks of every memo in discovery order, computed once
Discovered == [t \in Memos |-> Candidates(t, ZeroIndex, 1)]

\* the first candidate of cs whose folded text is that of candidate k
FirstLike(cs, k) ==
    cs[CHOOSE i \in 1..k :
          /\ Fold(cs[i].text) = Fold(cs[k].text)
          /\ \A h \in 1..(i - 1) : Fold(cs[h].text) # Fold(cs[k].text)]

\* C12: in the result of every analyze() call no task has an empty text and
\* no two tasks have the same text after trimming and case folding; every
\* returned task is a discovered candidate, and for every discovered text the
\* task returned is the first candidate with that text, unchanged, whichever
\* patterns found the later ones.
C12_FirstOccurrenceWins ==
    \A c \in 1..Len(calls) :
        LET tasks == calls[c].result.tasks
            cs == Discovered[calls[c].text]
        IN /\ \A n \in 1..Len(tasks) : TrimStr(tasks[n].text) # ""
           /\ \A m, n \in 1..Len(tasks) :
                 m # n => Fold(tasks[m].text) # Fold(tasks[n].text)
           /\ \A n \in 1..Len(tasks) : \E k \in 1..Len(cs) : tasks[n] = cs[k]
           /\ \A k \in 1..Len(cs) :
                 cs[k].text # "" =>
                    \E n \in 1..Len(tasks) : tasks[n] = FirstLike(cs, k)

\* analyze() returned one task for a text found three times, by two patterns
C12_Witness ==
    \E c \in 1..Len(calls) :
        /\ calls[c].text = Repeated
        /\ Len(Discovered[Repeated]) = 3
        /\ Len(calls[c].result.tasks) = 1
        /\ calls[c].result.tasks[1].text = "call Bob."

\* the texts and priorities of a sequence of tasks
TextsAndPriorities(tasks) ==
    [n \in 1..Len(tasks) |-> <<tasks[n].text, tasks[n].priority>>]

\* C13 as stated: for the transcript TwoTasks analyze() returns two tasks,
\* first "call Bob tomorrow." with priority none or medium, then
\* "send the report." with priority high.
C13_ObligationFirst ==
    \A c \in 1..Len(calls) :
        calls[c].text = TwoTasks =>
            TextsAndPriorities(calls[c].result.tasks)
                \in {<<<<"call Bob tomorrow.", p>>, <<"send the report.", "high">>>> :
                        p \in {"undefined", "medium"}}

\* C13 amended: for the transcript TwoTasks analyze() returns two tasks in
\* discovery order: first "send the report." with priority high, found by the
\* priority pattern, which is tried first; then "call Bob tomorrow." without
\* a priority.
C13_UrgentFirst ==
    \A c \in 1..Len(calls) :
        calls[c].text = TwoTasks =>
            TextsAndPriorities(calls[c].result.tasks)
                = <<<<"send the report.", "high">>,
                    <<"call Bob tomorrow.", "undefined">>>>

\* analyze() has been called with the transcript TwoTasks
C13_Witness ==
    \E c \in 1..Len(calls) :
        calls[c].text = TwoTasks /\ Len(calls[c].result.tasks) = 2

\* C19: two analyze() calls on one instance with the same transcript return
\* identical results, whatever calls were made between them, and the pattern
\* table is after every call as it was before.
C19_Deterministic ==
    /\ \A m, n \in 1..Len(calls) :
          calls[m].text = calls[n].text => calls[m].result = calls[n].result
    /\ lastIndex = ZeroIndex

\* a transcript with tasks was analyzed twice with another call in between
C19_Witness ==
    /\ Len(calls) >= 3
    /\ calls[1].text = calls[3].text
    /\ calls[2].text # calls[1].text
    /\ Len(calls[1].result.tasks) > 0
    /\ Len(calls[2].result.tasks) > 0

-----------------------------------------------------------------------------
(* The empty transcript (specification SumSpec) *)

\* C18: for the empty transcript analyze() returns no task and no key point,
\* and summarize() does not throw and returns an empty summary with no
\* topics, decisions or questions.
C18_EmptyTranscript ==
    Len(text) = 0 =>
        /\ AnalyzeWith(Str(text), ZeroIndex) = [tasks |-> <<>>, keyPoints |-> <<>>]
        /\ sumPc # "threw"
        /\ sumPc = "returned" =>
              /\ Len(sumResult[1].summary) = 0
              /\ Len(sumResult[1].topics) = 0
              /\ Len(sumResult[1].decisions) = 0
              /\ Len(sumResult[1].questions) = 0

\* summarize("") has returned
C18_Witness == Len(text) = 0 /\ sumPc = "returned" /\ Len(chunks) = 0

-----------------------------------------------------------------------------
(* Properties of the note content (specification NoteSpec) *)

\* the jobs whose note has been handed to vault.create
Noted == {j \in Jobs : pc[j] = "creating"}

\* the positions of line h in note n
At(n, h) == {i \in 1..Len(n) : n[i] = h}

\* the rendered task lines of note n
TaskLines(n) ==
    IF At(n, "## Tasks") = {} THEN <<>> ELSE Tail(Section(n, "## Tasks"))

\* C14: with includeSections.topics (decisions, questions) off, the note
\* handed to the store has no '### Topics Discussed' ('### Decisions Made',
\* '### Questions Raised') line.
C14_SectionsGated ==
    \A j \in Noted :
        /\ ~settings.includeTopics => At(note[j], "### Topics Discussed") = {}
        /\ ~settings.includeDecisions => At(note[j], "### Decisions Made") = {}
        /\ ~settings.includeQuestions => At(note[j], "### Questions Raised") = {}

\* C15: with includeTaskPriority (includeTaskDates) off, no task line of the
\* note handed to the store contains '[Priority: ' ('[Due: ').
C15_TaskFieldsGated ==
    \A j \in Noted :
        \A n \in 1..Len(TaskLines(note[j])) :
            /\ ~settings.includeTaskPriority =>
                  ~Includes(TaskLines(note[j])[n], "[Priority: ")
            /\ ~settings.includeTaskDates =>
                  ~Includes(TaskLines(note[j])[n], "[Due: ")

\* the only position of line h in note n (0 when h is not a line of n)
Where(n, h) == IF At(n, h) = {} THEN 0 ELSE CHOOSE i \in At(n, h) : TRUE

\* C16: the note handed to the store begins with the front matter and the
\* title; with a summary the '## Summary' block follows, then
\* '## Full Transcription' and the raw transcript, without one the raw
\* transcript follows the title directly; '## Tasks' is present exactly when
\* extractTasks is on and there is a task, '## Key Points' exactly when
\* extractKeyPoints is on and there is a key point, and the sections come in
\* this order, each header at most once.
C16_SectionOrder ==
    \A j \in Noted :
        LET n == note[j]
            raw == IF summary[j] # NoSummary
                   THEN Where(n, "## Full Transcription") + 2 ELSE 8
            tasks == Where(n, "## Tasks")
            points == Where(n, "## Key Points")
        IN /\ SubSeq(n, 1, 7) = <<"---", "type: voice-memo", "created", "---",
                                  "", "# Voice Memo Transcription", "">>
           /\ \A h \in {"## Summary", "## Full Transcription", "## Tasks",
                        "## Key Points"} : Cardinality(At(n, h)) <= 1
           /\ IF summary[j] # NoSummary
              THEN /\ Where(n, "## Summary") = 8
                   /\ n[10] = summary[j][1].summary
                   /\ Where(n, "## Full Transcription") > 10
              ELSE /\ At(n, "## Summary") = {}
                   /\ At(n, "## Full Transcription") = {}
           /\ raw <= Len(n) /\ n[raw] = result[j]
           /\ tasks # 0 <=> (settings.extractTasks
                             /\ Len(Analyze(result[j]).tasks) > 0)
           /\ points # 0 <=> (settings.extractKeyPoints
                              /\ Len(Analyze(result[j]).keyPoints) > 0)
           /\ tasks # 0 => tasks > raw
           /\ points # 0 => points > raw /\ points > tasks
           /\ tasks # 0 =>
                 Len(TaskLines(n)) = Len(Analyze(result[j]).tasks)
           /\ points # 0 =>
                 Tail(Section(n, "## Key Points"))
                     = Bullets(Analyze(result[j]).keyPoints)

\* a note with a summary, tasks and key points has been handed to the store
C16_Witness ==
    \E j \in Noted :
        /\ summary[j] # NoSummary
        /\ At(note[j], "## Tasks") # {}
        /\ At(note[j], "## Key Points") # {}
        /\ At(note[j], "### Questions Raised") = {}

\* the section headers with the list each one is rendered from
Sources(j) ==
    {<<"### Topics Discussed",
       IF summary[j] = NoSummary THEN <<>> ELSE summary[j][1].topics>>,
     <<"### Decisions Made",
       IF summary[j] = NoSummary THEN <<>> ELSE summary[j][1].decisions>>,
     <<"### Questions Raised",
       IF summary[j] = NoSummary THEN <<>> ELSE summary[j][1].questions>>,
     <<"## Tasks", Analyze(result[j]).tasks>>,
     <<"## Key Points", Analyze(result[j]).keyPoints>>}

-----------------------------------------------------------------------------
(* Properties of the merged summary (specification SumSpec) *)

\* the summaries of the chunks cks, one per chunk, in chunk order
InChunkOrder(cks) == [i \in 1..Len(cks) |-> SummarizeChunk(cks[i])]

\* C21: the summary summarize() returns is the chunk summaries in chunk-index
\* order, separated by blank lines, whatever the order in which the
\* summarizeChunk promises were fulfilled.
C21_MergedByIndex ==
    sumPc = "returned" =>
        sumResult[1].summary = Join(InChunkOrder(chunks))

\* summarize() returned after a later chunk's promise was fulfilled before an
\* earlier chunk's, the two chunks having different summaries
C21_Witness ==
    /\ sumPc = "returned"
    /\ Len(chunks) >= 2
    /\ \E a, b \in 1..Len(settled) :
          /\ a < b
          /\ settled[a] > settled[b]
          /\ SummarizeChunk(chunks[settled[a]]) # SummarizeChunk(chunks[settled[b]])

\* s is c's first sentence verbatim: a prefix of c that ends at the first
\* sentence terminator of c
FirstSentenceOf(s, c) ==
    /\ Len(s) >= 1
    /\ Len(s) <= Len(c)
    /\ s = SubSeq(c, 1, Len(s))
    /\ s[Len(s)] \in Terminators
    /\ \A i \in 1..(Len(s) - 1) : s[i] \notin Terminators

\* C22: the value a summarizeChunk promise is fulfilled with is the first
\* sentence of its chunk verbatim: a prefix of the chunk that ends at the
\* chunk's first sentence terminator, no character added.
C22_FirstSentenceVerbatim ==
    \A i \in 1..Len(chunkState) :
        chunkState[i] = "fulfilled" =>
            FirstSentenceOf(SummarizeChunk(chunks[i]), chunks[i])

-----------------------------------------------------------------------------
(* Properties of the task attributes (specification AnaSpec) *)

\* the start of every hashtag and mention token of s: a '#' or '@' followed
\* by a word character or '-', not inside an earlier token of the same kind
TokenStarts(s) ==
    {i \in 1..(Len(s) - 1) :
        /\ Ch(s, i) \in {"#", "@"}
        /\ Ch(s, i + 1) \in WordChars \cup {"-"}}

\* the token of s that starts at i
TokenAt(s, i) == SubSeq(s, i, i + Run(s, i + 1, WordChars \cup {"-"}))

\* the position of the first appearance of token k in s
FirstAppearance(s, k) ==
    CHOOSE i \in TokenStarts(s) :
        TokenAt(s, i) = k /\ \A h \in TokenStarts(s) : TokenAt(s, h) = k => i <= h

\* C23: the tags of every task returned by analyze() are the hashtag and
\* mention tokens of the task's text, each listed once, in the order of their
\* first appearance in that text.
C23_TagsInOrderOfAppearance ==
    \A c \in 1..Len(calls) :
        \A n \in 1..Len(calls[c].result.tasks) :
            LET task == calls[c].result.tasks[n]
            IN /\ SeqToSet(task.tags)
                    = {TokenAt(task.text, i) : i \in TokenStarts(task.text)}
               /\ \A a, b \in 1..Len(task.tags) :
                     a < b => FirstAppearance(task.text, task.tags[a])
                                 < FirstAppearance(task.text, task.tags[b])

\* the matched span and the trimmed capture of each match ms of t
SpansOf(t, ms) ==
    [n \in 1..Len(ms) |->
        [span |-> Matched(t, ms[n]), text |-> TrimStr(Captured(t, ms[n]))]]

\* the spans of t in discovery order: pattern by pattern, match by match
RECURSIVE SpansFrom(_, _)
SpansFrom(t, p) ==
    IF p > Len(TaskPatterns) THEN <<>>
    ELSE SpansOf(t, PatternMatches(t, p, 0)) \o SpansFrom(t, p + 1)

\* the spans of every memo, computed once
Spans == [t \in Memos |-> SpansFrom(t, 1)]

\* the span that found the task text x of memo t: the first one with that text
SpanOf(t, x) ==
    LET ss == Spans[t]
    IN ss[CHOOSE i \in 1..Len(ss) :
             /\ Fold(ss[i].text) = Fold(x)
             /\ \A h \in 1..(i - 1) : Fold(ss[h].text) # Fold(x)].span

\* the tier of span s for the escalation words high, medium and low:
\* the first tier, in this order, of which s contains a word
TierOf(s, high, medium, low) ==
    IF \E w \in high : Includes(ToLowerCase(s), w) THEN "high"
    ELSE IF \E w \in medium : Includes(ToLowerCase(s), w) THEN "medium"
    ELSE IF \E w \in low : Includes(ToLowerCase(s), w) THEN "low"
    ELSE "undefined"

\* C24 as stated: the priority of every returned task is the tier of its
\* matched span for the words urgent/asap/critical (high), important/soon
\* (medium) and eventually/when possible (low), none without such a word.
C24_ListedWords ==
    \A c \in 1..Len(calls) :
        \A n \in 1..Len(calls[c].result.tasks) :
            calls[c].result.tasks[n].priority
                = TierOf(SpanOf(calls[c].text, calls[c].result.tasks[n].text),
                         {"urgent", "asap", "critical"},
                         {"important", "soon"},
                         {"eventually", "when possible"})

\* C24 amended: the priority of every returned task is the tier of its whole
\* matched span (trigger phrase included), the tiers checked in the order
\* high, medium, low, for the words urgent/asap/high priority/critical/
\* immediately (high), soon/important/medium priority (medium) and
\* eventually/when possible/low priority (low), none without such a word.
C24_TierOfSpan ==
    \A c \in 1..Len(calls) :
        \A n \in 1..Len(calls[c].result.tasks) :
            calls[c].result.tasks[n].priority
                = TierOf(SpanOf(calls[c].text, calls[c].result.tasks[n].text),
                         {"urgent", "asap", "high priority", "critical",
                          "immediately"},
                         {"soon", "important", "medium priority"},
                         {"eventually", "when possible", "low priority"})

\* analyze() returned a task whose priority word is in the trigger phrase
\* only, and a task whose span holds words of two tiers
C24_Witness ==
    \E c, d \in 1..Len(calls) :
        /\ calls[c].text = TwoTasks
        /\ calls[c].result.tasks[1].text = "send the report."
        /\ calls[c].result.tasks[1].priority = "high"
        /\ calls[d].text = Tiers
        /\ calls[d].result.tasks[1].text = "book the room soon."
        /\ calls[d].result.tasks[1].priority = "high"
        /\ calls[d].result.tasks[2].text = "pay eventually or immediately."
        /\ calls[d].result.tasks[2].priority = "high"

-----------------------------------------------------------------------------
(* Properties of the key points (specification AnaSpec) *)

\* the sentences of t as split on '.', '!', '?' and newline: every maximal
\* run of other characters, trimmed, in text order; empty pieces left out
SplitSentences(t) ==
    LET begins == Ascending({i \in 1..Len(t) :
                      /\ Ch(t, i) \notin Terminators
                      /\ (i = 1 \/ Ch(t, i - 1) \in Terminators)})
        pieces == [n \in 1..Len(begins) |->
                      TrimStr(SubSeq(t, begins[n],
                                     begins[n] + RunNot(t, begins[n], Terminators) - 1))]
    IN SelectSeq(pieces, LAMBDA s : s # "")

\* s without the sentence terminators that end it
Unterminated(s) ==
    LET body == {i \in 1..Len(s) : Ch(s, i) \notin Terminators}
    IN IF body = {} THEN ""
       ELSE TrimStr(SubSeq(s, 1, CHOOSE i \in body : \A k \in body : i >= k))

\* C25: the key points analyze() returns are, in transcript order, exactly
\* the sentences of the transcript that contain a key-point indicator phrase:
\* none of them is left out.
C25_NoSentenceLeftOut ==
    \A c \in 1..Len(calls) :
        [n \in 1..Len(calls[c].result.keyPoints) |->
            Unterminated(calls[c].result.keyPoints[n])]
        = SelectSeq(SplitSentences(calls[c].text), IsKeyPoint)

-----------------------------------------------------------------------------
(* Properties of topics, decisions and questions (specification SumSpec) *)

\* no two elements of ss are equal
NoDuplicate(ss) == \A a, b \in 1..Len(ss) : a # b => ss[a] # ss[b]

\* the memos and the text made for the overlap: the texts worded in English
Telling == {Chars(t) : t \in Memos} \cup {Overlapping}

\* topics, decisions and questions of these texts, each taken as one string
\* and computed once
OfWholeText ==
    [t \in Telling |-> [topics |-> ExtractTopics(Str(t)),
                      decisions |-> ExtractDecisions(Str(t)),
                      questions |-> ExtractQuestions(Str(t))]]

\* C26: the topics, decisions and questions summarize() returns each hold no
\* two equal strings, for every text; for the texts worded in English they are
\* those found in the transcript as a whole, whatever chunks it was cut into:
\* a phrase in the overlap of two chunks is listed once.
C26_WholeTranscriptOnce ==
    sumPc = "returned" =>
        /\ NoDuplicate(sumResult[1].topics)
        /\ NoDuplicate(sumResult[1].decisions)
        /\ NoDuplicate(sumResult[1].questions)
        /\ text \in Telling =>
              /\ sumResult[1].topics = OfWholeText[text].topics
              /\ sumResult[1].decisions = OfWholeText[text].decisions
              /\ sumResult[1].questions = OfWholeText[text].questions

\* summarize() returned for a text whose two chunks both hold the topic, the
\* decision and the question
C26_Witness ==
    /\ sumPc = "returned"
    /\ Len(chunks) = 2
    /\ ranges[2][1] < ranges[1][2]
    /\ \A i \in 1..2 :
          /\ Includes(Str(chunks[i]), "discussed the budget.")
          /\ Includes(Str(chunks[i]), "decided to hire Ann.")
          /\ Includes(Str(chunks[i]), "Who will pay?")
    /\ sumResult[1].topics = <<"the budget">>
    /\ sumResult[1].decisions = <<"hire Ann.">>
    /\ sumResult[1].questions = <<"Who will pay?">>

-----------------------------------------------------------------------------
(* Progress of the queue (specification LiveSpec) *)

\* C27: the orchestrator never stalls with pending jobs: whenever a job has
\* completed, the queue is non-empty and no job is in flight, a job is
\* eventually started.
C27_NeverStalls ==
    (/\ \E j \in Jobs : pc[j] = "returned"
     /\ Len(queue) > 0
     /\ isProcessing = FALSE
     /\ Active = {})
    ~> (\E j \in Jobs : pc[j] = "transcribing")

-----------------------------------------------------------------------------
(* Properties of the orchestrator with cleanup() (specification CleanSpec) *)

\* C28: single-job processing survives cleanup(): at most one job is in
\* flight at any moment, also when jobs are submitted after a cleanup() that
\* was called with a job in flight, and the queue removal done when a job
\* finishes removes no job other than the one that finished.
C28_SingleJobSurvivesCleanup ==
    /\ [](Cardinality(Active) <= 1)
    /\ [][\A j \in Jobs :
            (pc[j] = "creating" /\ pc'[j] = "returned") =>
                SeqToSet(queue) \ SeqToSet(queue') \subseteq {j}]_vars

-----------------------------------------------------------------------------
(* Properties of getJobStatus (specification Spec) *)

\* C29: once a job has finished successfully, getJobStatus of its id returns
\* status 'completed' together with the job's result.
C29_FinishedJobObservable ==
    \A j \in Jobs :
        pc[j] = "returned" =>
            GetJobStatus(j) \in {<<[status |-> "completed", result |-> t,
                                    error |-> "undefined"]>> : t \in Transcripts}

\* C30: once a cleanup() has resolved through the worker's status message or
\* error event and initialize() has put a new worker in place, the 5 second
\* timer of that cleanup() leaves the new worker running and isInitialized as
\* it is
C30_SettledCleanupTimerInert ==
    [][\A c \in 1..Len(cleanups) :
          (/\ cleanups[c].timer /\ ~cleanups'[c].timer
           /\ cleanups[c].settled \in {"message", "error"}
           /\ worker # 0 /\ worker # cleanups[c].worker)
          => (/\ worker' = worker
              /\ worker \in alive'
              /\ isInitialized' = isInitialized)]_vars

====
